---- MODULE Spec2Model ----
(***************************************************************************)
(* Model of the Spotify helper library: src/spotipy_func.py (catalog       *)
(* access, bracket-path resolver, record flattener) and src/plot_func.py   *)
(* (bootstrap confidence interval).  One behaviour is one call of one      *)
(* function (or of the chained pipeline) on inputs chosen in Init; the      *)
(* actions are the loop iterations and the return of that call.            *)
(***************************************************************************)
EXTENDS Integers, Sequences, FiniteSets, TLC

VARIABLES
    op,                 \* the function that was called
    pc,                 \* position inside the call
    outcome,            \* "" while running, "returned", or the exception raised
    requests,           \* every request issued to the remote service, in order
    string,             \* split_by_brackets: argument
    parts,              \* split_by_brackets: returned list
    tracks,             \* merge / extract_track_ids: argument `tracks`
    audio_features,     \* merge: argument; get_audio_features: accumulated result
    playlist_name,      \* merge: argument
    extra_track_info,   \* merge: argument
    zip_pos,            \* merge: number of zip pairs already consumed
    track_list,         \* merge: rows appended so far
    track_features,     \* merge: the returned DataFrame
    track_ids,          \* get_audio_features: argument; extract_track_ids: result
    unresolved,         \* service: the track ids it answers with null
    batch_start,        \* get_audio_features: loop variable i
    track_names,        \* get_tracks_by_names_and_artists: argument
    artist_names,       \* get_tracks_by_names_and_artists: argument
    time_points,        \* get_tracks_by_names_and_artists: argument
    search_pos,         \* get_tracks_by_names_and_artists: loop variable i
    found,              \* get_tracks_by_names_and_artists: local list `tracks`
    pages,              \* service: the pages of the listing being paginated
    playlist_id,        \* get_tracks: argument
    results,            \* get_my_playlists / get_tracks: local `results` (page number, 0 = None)
    collected,          \* get_my_playlists / get_tracks: accumulated items
    data,               \* bootstrap_ci: argument
    n_bootstrap,        \* bootstrap_ci: argument
    ci,                 \* bootstrap_ci: argument
    boot_means,         \* bootstrap_ci: resample means drawn so far
    interval            \* bootstrap_ci: the returned (lower, upper)

vars == <<op, pc, outcome, requests, string, parts, tracks, audio_features,
          playlist_name, extra_track_info, zip_pos, track_list, track_features,
          track_ids, unresolved, batch_start, track_names, artist_names,
          time_points, search_pos, found, pages, playlist_id, results,
          collected, data, n_bootstrap, ci, boot_means, interval>>

splitVars  == <<string, parts>>
mergeVars  == <<tracks, playlist_name, extra_track_info, zip_pos, track_list,
                track_features>>
featVars   == <<track_ids, unresolved, batch_start>>
searchVars == <<track_names, artist_names, time_points, search_pos, found>>
pageVars   == <<pages, playlist_id, results, collected>>
bootVars   == <<data, n_bootstrap, ci, boot_means, interval>>

(***************************************************************************)
(* Bounds of the model.                                                    *)
(***************************************************************************)
MaxStrLen   == 4    \* longest enumerated path expression
MaxTracks   == 3    \* longest `tracks` list
MaxIds      == 250  \* longest `track_ids` list given to get_audio_features
MaxNames    == 2    \* longest `track_names` list
MaxPages    == 3    \* most pages the service serves
MaxItems    == 2    \* most items on one page
MaxData     == 3    \* longest `data` sequence
MaxBoot     == 2    \* largest n_bootstrap

(***************************************************************************)
(* Python values.  Every value carries its type so that truthiness and     *)
(* subscripting behave as in Python.                                       *)
(***************************************************************************)
None     == [kind |-> "none"]
Str(s)   == [kind |-> "str",  val |-> s]
Num(n)   == [kind |-> "num",  val |-> n]
Dict(f)  == [kind |-> "dict", val |-> f]
List(s)  == [kind |-> "list", val |-> s]

\* bool(v)
Truthy(v) ==
    CASE v.kind = "none" -> FALSE
      [] v.kind = "str"  -> v.val # ""
      [] v.kind = "num"  -> v.val # 0
      [] v.kind = "dict" -> DOMAIN v.val # {}
      [] v.kind = "list" -> Len(v.val) # 0

\* The result of evaluating an expression: a value, or an exception raised.
Ok(v)    == [exc |-> "", value |-> v]
Raise(e) == [exc |-> e, value |-> None]

\* value[key] for a string key
Subscript(value, key) ==
    IF value.kind = "dict"
    THEN IF key \in DOMAIN value.val THEN Ok(value.val[key]) ELSE Raise("KeyError")
    ELSE Raise("TypeError")

\* value[n] for an integer n >= 0
SubscriptInt(value, n) ==
    IF value.kind = "list"
    THEN IF n < Len(value.val) THEN Ok(value.val[n + 1]) ELSE Raise("IndexError")
    ELSE IF value.kind = "str"
    THEN IF n < Len(value.val) THEN Ok(Str(SubSeq(value.val, n + 1, n + 1)))
                               ELSE Raise("IndexError")
    ELSE IF value.kind = "dict" THEN Raise("KeyError")
    ELSE Raise("TypeError")

\* r[key] where r is itself the result of an expression
Then(r, key)    == IF r.exc # "" THEN r ELSE Subscript(r.value, key)
ThenInt(r, n)   == IF r.exc # "" THEN r ELSE SubscriptInt(r.value, n)

\* The first exception among a sequence of results evaluated left to right,
\* or the list of their values.
RECURSIVE FirstExc(_)
FirstExc(rs) ==
    IF rs = <<>> THEN ""
    ELSE IF Head(rs).exc # "" THEN Head(rs).exc ELSE FirstExc(Tail(rs))

Gather(rs) ==
    IF FirstExc(rs) # "" THEN Raise(FirstExc(rs))
    ELSE Ok([j \in 1..Len(rs) |-> rs[j].value])

(***************************************************************************)
(* The remote catalog's records.                                           *)
(***************************************************************************)
TrackIdSet == {1, 2}

FeatureNames == <<"danceability", "energy", "key", "loudness", "mode",
                  "speechiness", "acousticness", "instrumentalness", "liveness",
                  "valence", "tempo", "duration_ms", "time_signature">>

\* The audio-feature object of track `id`: every descriptor is distinct per
\* track and per descriptor.
FeatureIndex ==
    [danceability |-> 1, energy |-> 2, key |-> 3, loudness |-> 4, mode |-> 5,
     speechiness |-> 6, acousticness |-> 7, instrumentalness |-> 8, liveness |-> 9,
     valence |-> 10, tempo |-> 11, duration_ms |-> 12, time_signature |-> 13]

FeatureValue(id, name) == Num(100 * id + FeatureIndex[name])

AudioFeatureOf(id) ==
    Dict([name \in DOMAIN FeatureIndex \cup {"id"} |->
            IF name = "id" THEN Num(id) ELSE FeatureValue(id, name)])

\* The track object of track `id`.  Track 2's album carries no album_type.
AlbumOf(id) ==
    IF id = 1
    THEN Dict([name |-> Str("album-1"), album_type |-> Str("single")])
    ELSE Dict([name |-> Str("album-2")])

TrackOf(id) ==
    Dict([name       |-> Str(IF id = 1 THEN "song-1" ELSE "song-2"),
          id         |-> Num(id),
          artists    |-> List(<<Dict([name |-> Str(IF id = 1 THEN "artist-1" ELSE "artist-2")])>>),
          album      |-> AlbumOf(id),
          popularity |-> Num(10 + id)])

\* Playlist-entry wrappers: one per track, and one whose track was removed.
EntryOf(id)    == Dict([added_at |-> Str(IF id = 1 THEN "2024-01-01" ELSE "2024-02-02"),
                        track    |-> TrackOf(id)])
NullTrackEntry == Dict([added_at |-> Str("2024-03-03"), track |-> None])

EntrySet   == {EntryOf(id) : id \in TrackIdSet} \cup {NullTrackEntry}
FeatureSet == {AudioFeatureOf(id) : id \in TrackIdSet} \cup {None}

\* All sequences over S of length at most n.
RECURSIVE SeqsUpTo(_, _)
SeqsUpTo(S, n) ==
    IF n = 0 THEN {<<>>}
    ELSE LET shorter == SeqsUpTo(S, n - 1)
         IN  shorter \cup {Append(s, x) : s \in {t \in shorter : Len(t) = n - 1}, x \in S}

(***************************************************************************)
(* split_by_brackets, get_nested_value, get_track_info                     *)
(***************************************************************************)
CharAt(s, i) == SubSeq(s, i, i)

\* re.split(r'[\[\]]', string): the pieces between consecutive delimiters,
\* empty pieces included.
RECURSIVE re_split(_, _, _)
re_split(s, i, piece) ==
    IF i > Len(s) THEN <<piece>>
    ELSE IF CharAt(s, i) \in {"[", "]"}
         THEN <<piece>> \o re_split(s, i + 1, "")
         ELSE re_split(s, i + 1, piece \o CharAt(s, i))

\* Mutation of split_by_brackets: the empty pieces are kept.
split_keep_empty(s) == re_split(s, 1, "")

split_by_brackets(s) ==
    SelectSeq(re_split(s, 1, ""), LAMBDA part : part # "")

\* Mutation of get_nested_value: a key that does not resolve yields None.
RECURSIVE get_nested_value_or_none(_, _)
get_nested_value_or_none(dic, key_path) ==
    IF key_path = <<>> THEN Ok(dic)
    ELSE LET r == Subscript(dic, Head(key_path))
         IN  IF r.exc # "" THEN Ok(None)
             ELSE get_nested_value_or_none(r.value, Tail(key_path))

RECURSIVE get_nested_value(_, _)
get_nested_value(dic, key_path) ==
    IF key_path = <<>> THEN Ok(dic)
    ELSE LET r == Subscript(dic, Head(key_path))
         IN  IF r.exc # "" THEN r ELSE get_nested_value(r.value, Tail(key_path))

get_track_info(track, features) ==
    Gather([j \in 1..Len(features) |->
              get_nested_value(track, split_by_brackets(features[j]))])

(***************************************************************************)
(* merge_track_details_and_features                                        *)
(***************************************************************************)
Min(a, b) == IF a < b THEN a ELSE b

\* line 247: the pair is skipped
SkipPair(item, features) == ~Truthy(item) \/ ~Truthy(features)

\* lines 250-271: the 19 base cells and the label
track_details(item, features, label) ==
    LET track == Subscript(item, "track")
    IN  IF track.exc # "" THEN track
        ELSE Gather(
               << Subscript(item, "added_at"),
                  Then(track, "name"),
                  Then(track, "id"),
                  Then(ThenInt(Then(track, "artists"), 0), "name"),
                  Then(Then(track, "album"), "name"),
                  Then(track, "popularity") >>
               \o [j \in 1..Len(FeatureNames) |-> Subscript(features, FeatureNames[j])]
               \o << Ok(label) >>)

\* lines 250-277: the row one surviving pair appends, or the exception
merge_row(item, features, label, extra) ==
    LET details == track_details(item, features, label)
    IN  IF details.exc # "" THEN details
        ELSE IF Len(extra) # 0
             THEN LET extra_features == get_track_info(item, extra)
                  IN  IF extra_features.exc # "" THEN extra_features
                      ELSE Ok(details.value \o extra_features.value)
             ELSE details

\* Mutation of column_names: the label column is named after the extras.
column_names_label_last(extra) ==
    << "added_at", "track_name", "track_id", "artist", "album", "popularity",
       "danceability", "energy", "key", "loudness", "mode", "speechiness",
       "acousticness", "instrumentalness", "liveness", "valence", "tempo",
       "duration_ms", "time_signature" >> \o extra \o << "label" >>

\* lines 280-282
column_names(extra) ==
    << "added_at", "track_name", "track_id", "artist", "album", "popularity",
       "danceability", "energy", "key", "loudness", "mode", "speechiness",
       "acousticness", "instrumentalness", "liveness", "valence", "tempo",
       "duration_ms", "time_signature", "label" >> \o extra

\* pd.DataFrame(rows, columns = columns) for a list of lists: the data is as
\* wide as its longest row, shorter rows are padded with missing values, and
\* a width other than the number of columns is refused.
RECURSIVE MaxRowLen(_)
MaxRowLen(rows) ==
    IF rows = <<>> THEN 0
    ELSE LET m == MaxRowLen(Tail(rows))
         IN  IF Len(Head(rows)) > m THEN Len(Head(rows)) ELSE m

DataFrame(rows, columns) ==
    IF rows # <<>> /\ MaxRowLen(rows) # Len(columns) THEN Raise("ValueError")
    ELSE Ok([columns |-> columns,
             rows    |-> [r \in 1..Len(rows) |->
                            [c \in 1..Len(columns) |->
                               IF c <= Len(rows[r]) THEN rows[r][c] ELSE None]]])

NoFrame == [columns |-> <<>>, rows |-> <<>>]

\* One iteration of the loop of line 246 over zip(tracks, audio_features).
MergeIteration ==
    /\ pc = "merge"
    /\ zip_pos < Min(Len(tracks), Len(audio_features))
    /\ LET item     == tracks[zip_pos + 1]
           features == audio_features[zip_pos + 1]
           row      == merge_row(item, features, playlist_name, extra_track_info)
       IN  IF SkipPair(item, features)
           THEN /\ zip_pos' = zip_pos + 1
                /\ UNCHANGED <<pc, outcome, track_list>>
           ELSE IF row.exc # ""
           THEN /\ outcome' = row.exc
                /\ pc' = "done"
                /\ UNCHANGED <<zip_pos, track_list>>
           ELSE /\ track_list' = Append(track_list, row.value)
                /\ zip_pos' = zip_pos + 1
                /\ UNCHANGED <<pc, outcome>>
    /\ UNCHANGED <<op, requests, tracks, audio_features, playlist_name,
                   extra_track_info, track_features>>
    /\ UNCHANGED <<splitVars, featVars, searchVars, pageVars, bootVars>>

\* Lines 279-284: the DataFrame is built and returned.
MergeReturn ==
    /\ pc = "merge"
    /\ zip_pos = Min(Len(tracks), Len(audio_features))
    /\ LET frame == DataFrame(track_list, column_names(extra_track_info))
       IN  IF frame.exc # ""
           THEN outcome' = frame.exc /\ UNCHANGED track_features
           ELSE outcome' = "returned" /\ track_features' = frame.value
    /\ pc' = "done"
    /\ UNCHANGED <<op, requests, tracks, audio_features, playlist_name,
                   extra_track_info, zip_pos, track_list>>
    /\ UNCHANGED <<splitVars, featVars, searchVars, pageVars, bootVars>>

(***************************************************************************)
(* split_by_brackets as a call                                             *)
(***************************************************************************)
SplitCall ==
    /\ pc = "split_by_brackets"
    /\ parts' = split_by_brackets(string)
    /\ outcome' = "returned"
    /\ pc' = "done"
    /\ UNCHANGED <<op, requests, string, audio_features>>
    /\ UNCHANGED <<mergeVars, featVars, searchVars, pageVars, bootVars>>

(***************************************************************************)
(* extract_track_ids and get_audio_features                                *)
(***************************************************************************)
BatchLimit == 100

\* line 165: the id of every item whose track is truthy
RECURSIVE extract_track_ids(_)
extract_track_ids(items) ==
    IF items = <<>> THEN Ok(<<>>)
    ELSE LET track == Subscript(Head(items), "track")
             id    == Then(track, "id")
             rest  == extract_track_ids(Tail(items))
         IN  IF track.exc # "" THEN track
             ELSE IF ~Truthy(track.value) THEN rest
             ELSE IF id.exc # "" THEN id
             ELSE IF rest.exc # "" THEN rest
             ELSE Ok(<<id.value.val>> \o rest.value)

\* track_ids[i:i+100]
Slice(seq, from, to) == SubSeq(seq, from + 1, Min(to, Len(seq)))
\* Mutation of batch_of: the slice stops one id early.
batch_of_short(ids, i) == Slice(ids, i, i + BatchLimit - 1)

batch_of(ids, i) == Slice(ids, i, i + BatchLimit)

\* range(0, len(track_ids), 100): the value of i after i
next_batch_start(i) == i + BatchLimit

\* The service's answer to one audio-features request: one entry per id, null
\* for an id it cannot resolve.
sp_audio_features(batch) ==
    [j \in 1..Len(batch) |->
       IF batch[j] \in unresolved THEN None ELSE AudioFeatureOf(batch[j])]

\* The first step of the chained pipeline: ids = extract_track_ids(tracks).
PipelineExtract ==
    /\ pc = "extract_track_ids"
    /\ LET ids == extract_track_ids(tracks)
       IN  IF ids.exc # ""
           THEN outcome' = ids.exc /\ pc' = "done" /\ UNCHANGED track_ids
           ELSE track_ids' = ids.value /\ pc' = "get_audio_features"
                /\ UNCHANGED outcome
    /\ UNCHANGED <<op, requests, audio_features, unresolved, batch_start>>
    /\ UNCHANGED <<splitVars, mergeVars, searchVars, pageVars, bootVars>>

\* One iteration of the loop of lines 145-147.
FeaturesIteration ==
    /\ pc = "get_audio_features"
    /\ batch_start < Len(track_ids)
    /\ LET batch == batch_of(track_ids, batch_start)
       IN  /\ requests' = Append(requests, [call |-> "audio_features", ids |-> batch])
           /\ audio_features' = audio_features \o sp_audio_features(batch)
    /\ batch_start' = next_batch_start(batch_start)
    /\ UNCHANGED <<op, pc, outcome, track_ids, unresolved>>
    /\ UNCHANGED <<splitVars, mergeVars, searchVars, pageVars, bootVars>>

\* Line 148; in the pipeline the features go on to the merge.
FeaturesReturn ==
    /\ pc = "get_audio_features"
    /\ batch_start >= Len(track_ids)
    /\ IF op = "pipeline"
       THEN pc' = "merge" /\ UNCHANGED outcome
       ELSE pc' = "done" /\ outcome' = "returned"
    /\ UNCHANGED <<op, requests, audio_features>>
    /\ UNCHANGED <<splitVars, mergeVars, featVars, searchVars, pageVars, bootVars>>

(***************************************************************************)
(* get_tracks_by_names_and_artists                                         *)
(***************************************************************************)
\* time_points is a plain list (the declared type and the default) or a
\* pandas Series; only a Series has .iloc.
PyList(s) == [kind |-> "list",   val |-> s]
Series(s) == [kind |-> "series", val |-> s]

\* time_points.iloc[i]
iloc(obj, i) ==
    IF obj.kind = "series"
    THEN IF i < Len(obj.val) THEN Ok(obj.val[i + 1]) ELSE Raise("IndexError")
    ELSE Raise("AttributeError")

\* Mutation of check_lengths: time_points is not checked.
check_lengths_names_only(names, artists, points) ==
    IF Len(names) # Len(artists) THEN "ValueError" ELSE ""

\* lines 302-305: the exception the argument check raises, "" for none
check_lengths(names, artists, points) ==
    IF Len(names) # Len(artists) THEN "ValueError"
    ELSE IF Len(points.val) > 0 /\ Len(names) # Len(points.val) THEN "ValueError"
    ELSE ""

\* line 309
query_of(track_name, artist_name) ==
    "track:" \o track_name \o " artist:" \o artist_name

\* lines 314-315
song_format(points, i, track) ==
    LET added == IF Len(points.val) > 0 THEN iloc(points, i) ELSE Ok(None)
    IN  IF added.exc # "" THEN added
        ELSE Ok(Dict([added_at |-> added.value, track |-> track]))

SearchCheck ==
    /\ pc = "search_check"
    /\ LET exc == check_lengths(track_names, artist_names, time_points)
       IN  IF exc # ""
           THEN outcome' = exc /\ pc' = "done"
           ELSE pc' = "search_loop" /\ UNCHANGED outcome
    /\ UNCHANGED <<op, requests, audio_features>>
    /\ UNCHANGED <<splitVars, mergeVars, featVars, searchVars, pageVars, bootVars>>

\* One iteration of the loop of lines 308-316; the service answers the search
\* with its best match (a track id) or with no item (0).
SearchIteration ==
    /\ pc = "search_loop"
    /\ search_pos < Min(Len(track_names), Len(artist_names))
    /\ \E match \in {0} \cup TrackIdSet :
         LET i     == search_pos
             query == query_of(track_names[i + 1], artist_names[i + 1])
             items == IF match = 0 THEN <<>> ELSE <<TrackOf(match)>>
             song  == song_format(time_points, i, items[1])
         IN  /\ requests' = Append(requests,
                   [call |-> "search", q |-> query, type |-> "track", limit |-> 1,
                    match |-> match])
             /\ IF Len(items) = 0
                THEN /\ search_pos' = search_pos + 1
                     /\ UNCHANGED <<pc, outcome, found>>
                ELSE IF song.exc # ""
                THEN /\ outcome' = song.exc
                     /\ pc' = "done"
                     /\ UNCHANGED <<search_pos, found>>
                ELSE /\ found' = Append(found, song.value)
                     /\ search_pos' = search_pos + 1
                     /\ UNCHANGED <<pc, outcome>>
    /\ UNCHANGED <<op, audio_features, track_names, artist_names, time_points>>
    /\ UNCHANGED <<splitVars, mergeVars, featVars, pageVars, bootVars>>

SearchReturn ==
    /\ pc = "search_loop"
    /\ search_pos = Min(Len(track_names), Len(artist_names))
    /\ outcome' = "returned"
    /\ pc' = "done"
    /\ UNCHANGED <<op, requests, audio_features>>
    /\ UNCHANGED <<splitVars, mergeVars, featVars, searchVars, pageVars, bootVars>>

(***************************************************************************)
(* get_my_playlists and get_tracks                                         *)
(***************************************************************************)
\* The service serves Len(pages) pages; page j holds pages[j] items, each
\* distinct, and names page j + 1 as its next page unless it is the last.
ItemsOfPage(j) == [k \in 1..pages[j] |-> Num(10 * j + k)]

PageObject(j) ==
    Dict([items |-> List(ItemsOfPage(j)),
          next  |-> IF j < Len(pages) THEN Num(j + 1) ELSE None])

\* results['items'], results['next']
items_of(page) == page.val["items"].val
next_of(page)  == page.val["next"]

\* Mutation of has_next: an empty page ends the listing.
has_next_nonempty(page) ==
    Truthy(page.val["next"]) /\ Len(page.val["items"].val) # 0

\* the condition of lines 97 and 123
has_next(page) == Truthy(next_of(page))

\* list.extend
extend(list, items) == list \o items

\* Lines 93-94.
PlaylistsFirst ==
    /\ pc = "playlists_first"
    /\ requests' = Append(requests, [call |-> "current_user_playlists"])
    /\ results' = PageObject(1)
    /\ pc' = "playlists_loop"
    /\ UNCHANGED <<op, outcome, audio_features, pages, playlist_id, collected>>
    /\ UNCHANGED <<splitVars, mergeVars, featVars, searchVars, bootVars>>

\* One iteration of the loop of lines 95-100.
PlaylistsIteration ==
    /\ pc = "playlists_loop"
    /\ Truthy(results)
    /\ collected' = extend(collected, items_of(results))
    /\ IF has_next(results)
       THEN /\ requests' = Append(requests, [call |-> "next", page |-> next_of(results).val])
            /\ results' = PageObject(next_of(results).val)
       ELSE /\ results' = None
            /\ UNCHANGED requests
    /\ UNCHANGED <<op, pc, outcome, audio_features, pages, playlist_id>>
    /\ UNCHANGED <<splitVars, mergeVars, featVars, searchVars, bootVars>>

\* Line 101.
PlaylistsReturn ==
    /\ pc = "playlists_loop"
    /\ ~Truthy(results)
    /\ outcome' = "returned"
    /\ pc' = "done"
    /\ UNCHANGED <<op, requests, audio_features>>
    /\ UNCHANGED <<splitVars, mergeVars, featVars, searchVars, pageVars, bootVars>>

\* Lines 117-122.
TracksFirst ==
    /\ pc = "tracks_first"
    /\ requests' = Append(requests,
          IF Truthy(playlist_id)
          THEN [call |-> "playlist_tracks", playlist_id |-> playlist_id.val]
          ELSE [call |-> "current_user_saved_tracks", limit |-> 50])
    /\ results' = PageObject(1)
    /\ collected' = extend(collected, items_of(PageObject(1)))
    /\ pc' = "tracks_loop"
    /\ UNCHANGED <<op, outcome, audio_features, pages, playlist_id>>
    /\ UNCHANGED <<splitVars, mergeVars, featVars, searchVars, bootVars>>

\* One iteration of the loop of lines 123-125.
TracksIteration ==
    /\ pc = "tracks_loop"
    /\ has_next(results)
    /\ LET page == PageObject(next_of(results).val)
       IN  /\ requests' = Append(requests, [call |-> "next", page |-> next_of(results).val])
           /\ results' = page
           /\ collected' = extend(collected, items_of(page))
    /\ UNCHANGED <<op, pc, outcome, audio_features, pages, playlist_id>>
    /\ UNCHANGED <<splitVars, mergeVars, featVars, searchVars, bootVars>>

\* Line 126.
TracksReturn ==
    /\ pc = "tracks_loop"
    /\ ~has_next(results)
    /\ outcome' = "returned"
    /\ pc' = "done"
    /\ UNCHANGED <<op, requests, audio_features>>
    /\ UNCHANGED <<splitVars, mergeVars, featVars, searchVars, pageVars, bootVars>>

(***************************************************************************)
(* IEEE-754 binary64 arithmetic on non-negative finite numbers, as numpy   *)
(* computes with: every operation returns the exact result rounded to 53   *)
(* significant bits, ties to even.  Exponent range is not modelled (no     *)
(* overflow or subnormals occur for the values used).                      *)
(***************************************************************************)
\* Natural numbers of any size: little-endian digits in base 2^15, no
\* leading zero digit; zero is the empty sequence.
Base == 2 ^ 15

RECURSIVE BigStrip(_)
BigStrip(a) ==
    IF a = <<>> THEN <<>>
    ELSE IF a[Len(a)] = 0 THEN BigStrip(SubSeq(a, 1, Len(a) - 1)) ELSE a

RECURSIVE BigFromInt(_)
BigFromInt(n) == IF n = 0 THEN <<>> ELSE <<n % Base>> \o BigFromInt(n \div Base)

RECURSIVE BigToInt(_)
BigToInt(a) == IF a = <<>> THEN 0 ELSE Head(a) + Base * BigToInt(Tail(a))

Digit(a, i) == IF i <= Len(a) THEN a[i] ELSE 0

RECURSIVE BigAddFrom(_, _, _, _)
BigAddFrom(a, b, i, carry) ==
    IF i > Len(a) /\ i > Len(b)
    THEN IF carry = 0 THEN <<>> ELSE <<carry>>
    ELSE LET t == Digit(a, i) + Digit(b, i) + carry
         IN  <<t % Base>> \o BigAddFrom(a, b, i + 1, t \div Base)

BigAdd(a, b) == BigAddFrom(a, b, 1, 0)

\* a - b for a >= b
RECURSIVE BigSubFrom(_, _, _, _)
BigSubFrom(a, b, i, borrow) ==
    IF i > Len(a) THEN <<>>
    ELSE LET t == Digit(a, i) - Digit(b, i) - borrow
         IN  IF t < 0 THEN <<t + Base>> \o BigSubFrom(a, b, i + 1, 1)
                      ELSE <<t>> \o BigSubFrom(a, b, i + 1, 0)

BigSub(a, b) == BigStrip(BigSubFrom(a, b, 1, 0))

\* -1, 0, 1 as a < b, a = b, a > b
RECURSIVE BigCmpFrom(_, _, _)
BigCmpFrom(a, b, i) ==
    IF i = 0 THEN 0
    ELSE IF a[i] < b[i] THEN -1
    ELSE IF a[i] > b[i] THEN 1
    ELSE BigCmpFrom(a, b, i - 1)

BigCmp(a, b) ==
    IF Len(a) < Len(b) THEN -1
    ELSE IF Len(a) > Len(b) THEN 1
    ELSE BigCmpFrom(a, b, Len(a))

\* a * k for 0 <= k < Base
RECURSIVE BigMulSmallFrom(_, _, _, _)
BigMulSmallFrom(a, k, i, carry) ==
    IF i > Len(a)
    THEN IF carry = 0 THEN <<>> ELSE <<carry>>
    ELSE LET t == a[i] * k + carry
         IN  <<t % Base>> \o BigMulSmallFrom(a, k, i + 1, t \div Base)

BigMulSmall(a, k) == IF k = 0 THEN <<>> ELSE BigMulSmallFrom(a, k, 1, 0)

Zeros(n) == [i \in 1..n |-> 0]

RECURSIVE BigMulFrom(_, _, _)
BigMulFrom(a, b, i) ==
    IF i > Len(b) THEN <<>>
    ELSE BigAdd(IF b[i] = 0 THEN <<>> ELSE Zeros(i - 1) \o BigMulSmall(a, b[i]),
                BigMulFrom(a, b, i + 1))

BigMul(a, b) == IF a = <<>> THEN <<>> ELSE BigMulFrom(a, b, 1)

\* quotient and remainder of a by k, 0 < k < Base; digit i downwards
RECURSIVE BigDivSmallFrom(_, _, _, _)
BigDivSmallFrom(a, k, i, rem) ==
    IF i = 0 THEN [q |-> <<>>, r |-> rem]
    ELSE LET t    == rem * Base + a[i]
             rest == BigDivSmallFrom(a, k, i - 1, t % k)
         IN  [q |-> Append(rest.q, t \div k), r |-> rest.r]

BigDivSmall(a, k) ==
    LET d == BigDivSmallFrom(a, k, Len(a), 0)
    IN  [q |-> BigStrip(d.q), r |-> d.r]

\* a * 2^s and floor(a / 2^s)
BigShl(a, s) ==
    IF a = <<>> THEN <<>>
    ELSE Zeros(s \div 15) \o BigMulSmall(a, 2 ^ (s % 15))

BigShr(a, s) ==
    IF s \div 15 >= Len(a) THEN <<>>
    ELSE BigDivSmall(SubSeq(a, s \div 15 + 1, Len(a)), 2 ^ (s % 15)).q

RECURSIVE BitsOf(_)
BitsOf(n) == IF n = 0 THEN 0 ELSE 1 + BitsOf(n \div 2)

BigBitLen(a) == IF a = <<>> THEN 0 ELSE 15 * (Len(a) - 1) + BitsOf(a[Len(a)])

BigOdd(a) == a # <<>> /\ a[1] % 2 = 1

\* the number of trailing zero bits of a # 0
RECURSIVE TrailingZeros(_)
TrailingZeros(n) == IF n % 2 = 1 THEN 0 ELSE 1 + TrailingZeros(n \div 2)

RECURSIVE BigTrailingZeros(_)
BigTrailingZeros(a) ==
    IF Head(a) = 0 THEN 15 + BigTrailingZeros(Tail(a)) ELSE TrailingZeros(Head(a))

\* A float is m * 2^e with m odd, or zero.
Precision == 53

FloatZero == [m |-> <<>>, e |-> 0]

Float(m, e) ==
    IF m = <<>> THEN FloatZero
    ELSE LET z == BigTrailingZeros(m)
         IN  [m |-> BigShr(m, z), e |-> e + z]

\* The float nearest to m * 2^e, or to a value strictly between m * 2^e and
\* (m + 1) * 2^e when `sticky` (then m has more than Precision + 1 bits).
FloatRound(m, e, sticky) ==
    LET len == BigBitLen(m)
    IN  IF len <= Precision THEN Float(m, e)
        ELSE LET s     == len - Precision
                 q     == BigShr(m, s)
                 rem   == BigSub(m, BigShl(q, s))
                 half  == BigShl(<<1>>, s - 1)
                 c     == BigCmp(rem, half)
                 up    == c > 0 \/ (c = 0 /\ (sticky \/ BigOdd(q)))
             IN  Float(IF up THEN BigAdd(q, <<1>>) ELSE q, e + s)

FloatFromInt(n) == Float(BigFromInt(n), 0)

\* the mantissas of x and y over their common exponent
Aligned(x, y) ==
    LET e == IF x.e < y.e THEN x.e ELSE y.e
    IN  [e |-> e, x |-> BigShl(x.m, x.e - e), y |-> BigShl(y.m, y.e - e)]

FloatAdd(x, y) == LET a == Aligned(x, y) IN FloatRound(BigAdd(a.x, a.y), a.e, FALSE)
FloatLeq(x, y) == LET a == Aligned(x, y) IN BigCmp(a.x, a.y) <= 0

\* x - y for x >= y
FloatSub(x, y) == LET a == Aligned(x, y) IN FloatRound(BigSub(a.x, a.y), a.e, FALSE)

FloatMul(x, y) == FloatRound(BigMul(x.m, y.m), x.e + y.e, FALSE)

\* x / n for an integer 0 < n < 2^15
FloatDivInt(x, n) ==
    LET d == BigDivSmall(BigShl(x.m, 75), n)
    IN  FloatRound(d.q, x.e - 75, d.r # 0)

\* floor(x) as an integer, for small x
FloatFloor(x) ==
    IF x.e >= 0 THEN BigToInt(BigShl(x.m, x.e)) ELSE BigToInt(BigShr(x.m, -x.e))

(***************************************************************************)
(* bootstrap_ci                                                            *)
(***************************************************************************)
\* np.random.choice(data, size=len(data), replace=True) for the drawn indices
choice(values, indices) == [k \in 1..Len(values) |-> values[indices[k]]]

\* every sample one draw can produce
Resamples(values) ==
    {choice(values, indices) : indices \in [1..Len(values) -> 1..Len(values)]}

\* np.sum: the elements added one after the other
RECURSIVE FloatSum(_, _)
FloatSum(sample, n) ==
    IF n = 1 THEN sample[1] ELSE FloatAdd(FloatSum(sample, n - 1), sample[n])

\* np.mean: the sum divided by the count
mean(sample) == FloatDivInt(FloatSum(sample, Len(sample)), Len(sample))

RECURSIVE Insert(_, _)
Insert(x, sorted) ==
    IF sorted = <<>> THEN <<x>>
    ELSE IF FloatLeq(x, Head(sorted)) THEN <<x>> \o sorted
    ELSE <<Head(sorted)>> \o Insert(x, Tail(sorted))

RECURSIVE Sorted(_)
Sorted(seq) == IF seq = <<>> THEN <<>> ELSE Insert(Head(seq), Sorted(Tail(seq)))

\* Mutation of lerp: the lower rank is not subtracted from the upper one.
lerp_forgets_a(a, b, t) == FloatAdd(a, FloatMul(b, t))

\* numpy's linear interpolation a + (b - a) * t, taken from b when t >= 0.5
lerp(a, b, t) ==
    LET diff_b_a == FloatSub(b, a)
    IN  IF FloatLeq(FloatDivInt(FloatFromInt(1), 2), t)
        THEN FloatSub(b, FloatMul(diff_b_a, FloatSub(FloatFromInt(1), t)))
        ELSE FloatAdd(a, FloatMul(diff_b_a, t))

\* np.percentile(a, q), method "linear": the virtual index (n - 1) * q / 100,
\* the two ranks around it and the interpolation between them
percentile(a, q) ==
    LET n             == Len(a)
        virtual_index == FloatMul(FloatFromInt(n - 1), FloatDivInt(q, 100))
        previous      == FloatFloor(virtual_index)
        following     == Min(previous + 1, n - 1)
        gamma         == FloatSub(virtual_index, FloatFromInt(previous))
        sorted        == Sorted(a)
    IN  lerp(sorted[previous + 1], sorted[following + 1], gamma)

\* lines 24-25
lower_of(means, level) ==
    percentile(means, FloatDivInt(FloatFromInt(100 - level), 2))
upper_of(means, level) ==
    percentile(means, FloatSub(FloatFromInt(100),
                               FloatDivInt(FloatFromInt(100 - level), 2)))

\* One resample of line 23: any sample of len(data) elements may be drawn.
BootstrapDraw ==
    /\ pc = "bootstrap_ci"
    /\ Len(boot_means) < n_bootstrap
    /\ \E sample \in Resamples(data) :
         boot_means' = Append(boot_means, mean(sample))
    /\ UNCHANGED <<op, pc, outcome, requests, audio_features, data, n_bootstrap,
                   ci, interval>>
    /\ UNCHANGED <<splitVars, mergeVars, featVars, searchVars, pageVars>>

\* Lines 24-26.
BootstrapReturn ==
    /\ pc = "bootstrap_ci"
    /\ Len(boot_means) = n_bootstrap
    /\ interval' = <<lower_of(boot_means, ci), upper_of(boot_means, ci)>>
    /\ outcome' = "returned"
    /\ pc' = "done"
    /\ UNCHANGED <<op, requests, audio_features, data, n_bootstrap, ci, boot_means>>
    /\ UNCHANGED <<splitVars, mergeVars, featVars, searchVars, pageVars>>

\* The data values: the integer 5 and the literal 0.1.
Five  == FloatFromInt(5)
Tenth == FloatDivInt(FloatFromInt(1), 10)

(***************************************************************************)
(* Initial states: one call, its arguments and the service it talks to.    *)
(***************************************************************************)
SplitIdle  == string = "" /\ parts = <<>>
MergeIdle  == /\ tracks = <<>> /\ playlist_name = None /\ extra_track_info = <<>>
              /\ zip_pos = 0 /\ track_list = <<>> /\ track_features = NoFrame
FeatIdle   == track_ids = <<>> /\ unresolved = {} /\ batch_start = 0
SearchIdle == /\ track_names = <<>> /\ artist_names = <<>> /\ time_points = PyList(<<>>)
              /\ search_pos = 0 /\ found = <<>>
PageIdle   == pages = <<>> /\ playlist_id = None /\ results = None /\ collected = <<>>
BootIdle   == /\ data = <<>> /\ n_bootstrap = 0 /\ ci = 0 /\ boot_means = <<>>
              /\ interval = <<>>

\* Path expressions: every string of at most MaxStrLen characters over a
\* letter alphabet with both brackets, and the documented examples.
Alphabet == {"a", "b", "[", "]"}

RECURSIVE Strings(_)
Strings(n) ==
    IF n = 0 THEN {""}
    ELSE LET shorter == Strings(n - 1)
         IN  shorter \cup {t \o c : t \in {u \in shorter : Len(u) = n - 1}, c \in Alphabet}

PathStrings == Strings(MaxStrLen) \cup {"[a][b][c]", "abc", "[][a][]"}

\* The extra_track_info lists a caller passes.
ExtraChoices ==
    { <<>>,
      <<"[added_at]">>,
      <<"[track][album][album_type]">>,
      <<"[track][popularity]", "[track][album][album_type]">>,
      <<"[track][name][first]">> }

InitSplit ==
    /\ op = "split_by_brackets" /\ pc = "split_by_brackets"
    /\ string \in PathStrings /\ parts = <<>>
    /\ audio_features = <<>>
    /\ MergeIdle /\ FeatIdle /\ SearchIdle /\ PageIdle /\ BootIdle

InitMerge ==
    /\ op = "merge_track_details_and_features" /\ pc = "merge"
    /\ tracks \in SeqsUpTo(EntrySet, MaxTracks)
    /\ audio_features \in {f \in SeqsUpTo(FeatureSet, MaxTracks) : Len(f) = Len(tracks)}
    /\ playlist_name = Str("liked")
    /\ extra_track_info \in ExtraChoices
    /\ zip_pos = 0 /\ track_list = <<>> /\ track_features = NoFrame
    /\ SplitIdle /\ FeatIdle /\ SearchIdle /\ PageIdle /\ BootIdle

InitPipeline ==
    /\ op = "pipeline" /\ pc = "extract_track_ids"
    /\ tracks \in SeqsUpTo(EntrySet, MaxTracks)
    /\ audio_features = <<>>
    /\ playlist_name = None
    /\ extra_track_info \in {<<>>, <<"[added_at]">>}
    /\ zip_pos = 0 /\ track_list = <<>> /\ track_features = NoFrame
    /\ track_ids = <<>> /\ unresolved \in SUBSET TrackIdSet /\ batch_start = 0
    /\ SplitIdle /\ SearchIdle /\ PageIdle /\ BootIdle

InitFeatures ==
    /\ op = "get_audio_features" /\ pc = "get_audio_features"
    /\ \E n \in 0..MaxIds : track_ids = [i \in 1..n |-> i]
    /\ unresolved \in SUBSET {BatchLimit, BatchLimit + 1}
    /\ batch_start = 0
    /\ audio_features = <<>>
    /\ SplitIdle /\ MergeIdle /\ SearchIdle /\ PageIdle /\ BootIdle

InitSearch ==
    /\ op = "get_tracks_by_names_and_artists" /\ pc = "search_check"
    /\ track_names \in SeqsUpTo({"n1", "n2"}, MaxNames)
    /\ artist_names \in SeqsUpTo({"a1", "a2"}, MaxNames)
    /\ \E points \in SeqsUpTo({Str("2024-05-05")}, MaxNames) :
         time_points \in {PyList(points), Series(points)}
    /\ search_pos = 0 /\ found = <<>>
    /\ audio_features = <<>>
    /\ SplitIdle /\ MergeIdle /\ FeatIdle /\ PageIdle /\ BootIdle

InitPages ==
    /\ \/ op = "get_my_playlists" /\ pc = "playlists_first" /\ playlist_id = None
       \/ op = "get_tracks" /\ pc = "tracks_first" /\ playlist_id \in {None, Str("pl")}
    /\ pages \in SeqsUpTo(0..MaxItems, MaxPages) \ {<<>>}
    /\ results = None /\ collected = <<>>
    /\ audio_features = <<>>
    /\ SplitIdle /\ MergeIdle /\ FeatIdle /\ SearchIdle /\ BootIdle

InitBootstrap ==
    /\ op = "bootstrap_ci" /\ pc = "bootstrap_ci"
    /\ data \in SeqsUpTo({Five, Tenth}, MaxData) \ {<<>>}
    /\ n_bootstrap \in 1..MaxBoot
    /\ ci \in {95, 50}
    /\ boot_means = <<>> /\ interval = <<>>
    /\ audio_features = <<>>
    /\ SplitIdle /\ MergeIdle /\ FeatIdle /\ SearchIdle /\ PageIdle

Init ==
    /\ outcome = ""
    /\ requests = <<>>
    /\ \/ InitSplit
       \/ InitMerge
       \/ InitPipeline
       \/ InitFeatures
       \/ InitSearch
       \/ InitPages
       \/ InitBootstrap

Next ==
    \/ SplitCall
    \/ MergeIteration
    \/ MergeReturn
    \/ PipelineExtract
    \/ FeaturesIteration
    \/ FeaturesReturn
    \/ SearchCheck
    \/ SearchIteration
    \/ SearchReturn
    \/ PlaylistsFirst
    \/ PlaylistsIteration
    \/ PlaylistsReturn
    \/ TracksFirst
    \/ TracksIteration
    \/ TracksReturn
    \/ BootstrapDraw
    \/ BootstrapReturn

Spec == Init /\ [][Next]_vars

\* The paginated listings alone.  The calls are synchronous and
\* single-threaded: a call that can take its next step takes it.
PageInit == outcome = "" /\ requests = <<>> /\ InitPages

PageNext ==
    \/ PlaylistsFirst
    \/ PlaylistsIteration
    \/ PlaylistsReturn
    \/ TracksFirst
    \/ TracksIteration
    \/ TracksReturn

PageSpec == PageInit /\ [][PageNext]_vars /\ WF_vars(PageNext)

(***************************************************************************)
(* Properties                                                              *)
(***************************************************************************)
PairCount == Min(Len(tracks), Len(audio_features))

\* Pair i has a track and a feature vector.
HasTrack(item)  == item.val["track"] # None
PairSurvives(i) == HasTrack(tracks[i]) /\ audio_features[i] # None

\* The indices of the surviving pairs among the first n, in input order.
RECURSIVE SurvivorsUpTo(_)
SurvivorsUpTo(n) ==
    IF n = 0 THEN <<>>
    ELSE IF PairSurvives(n) THEN Append(SurvivorsUpTo(n - 1), n)
    ELSE SurvivorsUpTo(n - 1)

Survivors == SurvivorsUpTo(PairCount)

\* The value reached from root after the first n keys, Missing when a key is
\* absent or the value reached is no mapping.
Missing == [kind |-> "missing"]

RECURSIVE Descend(_, _, _)
Descend(root, keys, n) ==
    IF n = 0 THEN root
    ELSE LET above == Descend(root, keys, n - 1)
         IN  IF above.kind = "dict" /\ keys[n] \in DOMAIN above.val
             THEN above.val[keys[n]] ELSE Missing

Resolved(item, path) ==
    Descend(item, split_by_brackets(path), Len(split_by_brackets(path)))

AllPathsResolve(item) ==
    \A j \in 1..Len(extra_track_info) : Resolved(item, extra_track_info[j]) # Missing

\* C1: a pair whose track reference is null or whose feature vector is null
\* contributes no row and does not make the call fail; every other pair
\* contributes exactly one row, in input order.
C1_NullPairsSkipped ==
    (/\ op = "merge_track_details_and_features"
     /\ pc = "done"
     /\ \A k \in 1..Len(Survivors) : AllPathsResolve(tracks[Survivors[k]]))
    => /\ outcome = "returned"
       /\ Len(track_features.rows) = Len(Survivors)
       /\ \A k \in 1..Len(Survivors) :
            /\ track_features.rows[k][1] = tracks[Survivors[k]].val["added_at"]
            /\ track_features.rows[k][3] = tracks[Survivors[k]].val["track"].val["id"]
            /\ track_features.rows[k][7] = audio_features[Survivors[k]].val["danceability"]

\* The cell that belongs under a column name, for one pair.
CellNamed(name, item, features) ==
    CASE name = "added_at"   -> item.val["added_at"]
      [] name = "track_name" -> item.val["track"].val["name"]
      [] name = "track_id"   -> item.val["track"].val["id"]
      [] name = "artist"     -> item.val["track"].val["artists"].val[1].val["name"]
      [] name = "album"      -> item.val["track"].val["album"].val["name"]
      [] name = "popularity" -> item.val["track"].val["popularity"]
      [] name = "label"      -> playlist_name
      [] name \in {FeatureNames[j] : j \in 1..Len(FeatureNames)} -> features.val[name]
      [] OTHER               -> Resolved(item, name)

BaseSchema ==
    << "added_at", "track_name", "track_id", "artist", "album", "popularity",
       "danceability", "energy", "key", "loudness", "mode", "speechiness",
       "acousticness", "instrumentalness", "liveness", "valence", "tempo",
       "duration_ms", "time_signature" >>

\* C2: whenever the flattener returns, the header is the 19 base names, then
\* "label", then the extra paths in caller order (20 + k columns), every row
\* has 20 + k values, and each value is the one named by its column.
C2_SchemaLockstep ==
    (op \in {"merge_track_details_and_features", "pipeline"} /\ outcome = "returned")
    => LET k      == Len(extra_track_info)
           header == track_features.columns
           rows   == track_features.rows
       IN  /\ Len(header) = 20 + k
           /\ header = BaseSchema \o <<"label">> \o extra_track_info
           /\ \A r \in 1..Len(rows) :
                /\ Len(rows[r]) = 20 + k
                /\ rows[r][20] = playlist_name
                /\ \E i \in 1..PairCount :
                     /\ PairSurvives(i)
                     /\ \A c \in 1..(20 + k) :
                          rows[r][c] = CellNamed(header[c], tracks[i], audio_features[i])

C2_Witness ==
    /\ op = "merge_track_details_and_features"
    /\ outcome = "returned"
    /\ Len(extra_track_info) = 2
    /\ Len(track_features.rows) = 2

\* The audio features have all been fetched.
FeaturesFetched ==
    \/ op = "get_audio_features" /\ pc = "done"
    \/ op = "pipeline" /\ pc = "merge"

\* C3: ceil(n / 100) requests, request j carrying the ids at positions
\* 100 (j - 1) + 1 .. min(100 j, n) in input order, never more than 100 ids
\* in a request; the result is one entry per id, in input order.
C3_BatchedFeatures ==
    LET n == Len(track_ids)
    IN  /\ op \in {"get_audio_features", "pipeline"}
           => \A j \in 1..Len(requests) : Len(requests[j].ids) \in 1..100
        /\ FeaturesFetched
           => /\ Len(requests) = (n + 99) \div 100
              /\ \A j \in 1..Len(requests) :
                   LET first == 100 * (j - 1) + 1
                       last  == IF 100 * j < n THEN 100 * j ELSE n
                   IN  /\ requests[j].call = "audio_features"
                       /\ requests[j].ids = [p \in 1..(last - first + 1) |->
                                               track_ids[first + p - 1]]
              /\ Len(audio_features) = n
              /\ \A i \in 1..n :
                   audio_features[i] =
                     IF track_ids[i] \in unresolved THEN None
                     ELSE AudioFeatureOf(track_ids[i])

C3_Witness ==
    /\ op = "get_audio_features"
    /\ pc = "done"
    /\ Len(track_ids) = 250
    /\ Len(requests) = 3
    /\ Len(requests[3].ids) = 50
    /\ audio_features[100] = None
    /\ audio_features[101] # None

\* The arguments of the search do not have matching lengths.
LengthMismatch ==
    \/ Len(track_names) # Len(artist_names)
    \/ Len(time_points.val) # 0 /\ Len(time_points.val) # Len(track_names)

\* C4: with mismatched lengths the search fails with the argument error and
\* has issued no request.
C4_MismatchFailsFirst ==
    (op = "get_tracks_by_names_and_artists" /\ LengthMismatch)
    => /\ requests = <<>>
       /\ found = <<>>
       /\ pc \in {"search_check", "done"}
       /\ pc = "done" => outcome = "ValueError"

C4_Witness ==
    /\ op = "get_tracks_by_names_and_artists"
    /\ Len(track_names) = 2 /\ Len(artist_names) = 2 /\ Len(time_points.val) = 1
    /\ pc = "done"
    /\ outcome = "ValueError"

\* The wrappers of the matching searches among the first n requests.
RECURSIVE MatchesUpTo(_)
MatchesUpTo(n) ==
    IF n = 0 THEN <<>>
    ELSE IF requests[n].match = 0 THEN MatchesUpTo(n - 1)
    ELSE Append(MatchesUpTo(n - 1),
                Dict([added_at |-> IF Len(time_points.val) > 0
                                   THEN time_points.val[n] ELSE None,
                      track    |-> TrackOf(requests[n].match)]))

\* C5: with equal-length arguments the search issues one request per index,
\* in order, with the query "track:<name> artist:<artist>" and limit 1, and
\* returns one wrapper per matching index, in index order, nothing else.
C5_OneWrapperPerMatch ==
    (op = "get_tracks_by_names_and_artists" /\ ~LengthMismatch /\ pc = "done")
    => /\ outcome = "returned"
       /\ Len(requests) = Len(track_names)
       /\ \A i \in 1..Len(requests) :
            /\ requests[i].q = "track:" \o track_names[i] \o " artist:" \o artist_names[i]
            /\ requests[i].limit = 1
       /\ found = MatchesUpTo(Len(requests))
       /\ Len(found) <= Len(track_names)

Paginating == op \in {"get_my_playlists", "get_tracks"}

\* items(P1) ++ ... ++ items(Pn)
RECURSIVE ItemsUpTo(_)
ItemsUpTo(n) == IF n = 0 THEN <<>> ELSE ItemsUpTo(n - 1) \o ItemsOfPage(n)

FirstRequest ==
    IF op = "get_my_playlists" THEN [call |-> "current_user_playlists"]
    ELSE IF playlist_id = None THEN [call |-> "current_user_saved_tracks", limit |-> 50]
    ELSE [call |-> "playlist_tracks", playlist_id |-> playlist_id.val]

\* One request per page and in page order so far; at the return exactly one
\* request per page has been issued and the result is every page's items in
\* order.
PaginationSafe ==
    Paginating
    => /\ Len(requests) <= Len(pages)
       /\ \A j \in 1..Len(requests) :
            requests[j] = IF j = 1 THEN FirstRequest ELSE [call |-> "next", page |-> j]
       /\ pc = "done"
          => /\ outcome = "returned"
             /\ Len(requests) = Len(pages)
             /\ collected = ItemsUpTo(Len(pages))

\* C6: over pages P1..Pm of which only the last has no next-page indicator,
\* the listing issues one request per page in order and none after Pm,
\* terminates, and returns items(P1) ++ ... ++ items(Pm); an empty page with
\* a next indicator does not stop it.
C6_Pagination ==
    /\ []PaginationSafe
    /\ (Paginating /\ pc # "done") ~> (pc = "done" /\ outcome = "returned")

C6_Witness ==
    /\ op = "get_tracks"
    /\ pc = "done"
    /\ pages = <<1, 0, 2>>
    /\ Len(requests) = 3
    /\ collected = <<Num(11), Num(31), Num(32)>>

\* C7: when an extra path does not resolve against the entry of a surviving
\* pair, the flattener raises and returns no dataset (no defaulted value, no
\* short row, no dataset of the earlier rows); when it returns, the extra
\* values of each row are the values the paths resolve to, in path order.
C7_NoPartialOutput ==
    (op = "merge_track_details_and_features" /\ pc = "done")
    => /\ (\E i \in 1..PairCount : PairSurvives(i) /\ ~AllPathsResolve(tracks[i]))
          => /\ outcome \in {"KeyError", "TypeError"}
             /\ track_features = NoFrame
       /\ outcome = "returned"
          => /\ Len(track_features.rows) = Len(Survivors)
             /\ \A k \in 1..Len(Survivors) :
                  \A j \in 1..Len(extra_track_info) :
                     track_features.rows[k][20 + j] =
                        Resolved(tracks[Survivors[k]], extra_track_info[j])

C7_Witness ==
    /\ op = "merge_track_details_and_features"
    /\ pc = "done"
    /\ outcome = "KeyError"
    /\ Len(track_list) = 1
    /\ track_features = NoFrame
    /\ \E i \in 2..PairCount : PairSurvives(i) /\ ~AllPathsResolve(tracks[i])

\* The maximal bracket-free runs of the argument.
IsBracketAt(i) == CharAt(string, i) \in {"[", "]"}
RunStarts == {i \in 1..Len(string) : ~IsBracketAt(i) /\ (i = 1 \/ IsBracketAt(i - 1))}
RunEnd(i) ==
    CHOOSE j \in i..Len(string) :
       /\ \A k \in i..j : ~IsBracketAt(k)
       /\ j = Len(string) \/ IsBracketAt(j + 1)

\* C8: split_by_brackets returns exactly the maximal non-empty bracket-free
\* substrings, left to right; no key is empty or holds a bracket, a non-empty
\* string without brackets is returned whole, and the documented examples.
C8_MaximalRuns ==
    (op = "split_by_brackets" /\ pc = "done")
    => /\ Len(parts) = Cardinality(RunStarts)
       /\ \A i \in RunStarts :
            parts[Cardinality({r \in RunStarts : r <= i})] = SubSeq(string, i, RunEnd(i))
       /\ \A k \in 1..Len(parts) :
            /\ parts[k] # ""
            /\ \A c \in 1..Len(parts[k]) : CharAt(parts[k], c) \notin {"[", "]"}
       /\ (string # "" /\ \A i \in 1..Len(string) : ~IsBracketAt(i)) => parts = <<string>>
       /\ string = "[a][b][c]" => parts = <<"a", "b", "c">>
       /\ string = "abc" => parts = <<"abc">>
       /\ string = "[][a][]" => parts = <<"a">>

C8_Witness ==
    /\ op = "split_by_brackets"
    /\ pc = "done"
    /\ string = "[][a][]"
    /\ parts = <<"a">>

\* C10: in the chained pipeline every emitted row carries the audio features
\* the service returned for the row's own track id.
C10_RowsCarryOwnFeatures ==
    (op = "pipeline" /\ outcome = "returned")
    => \A r \in 1..Len(track_features.rows) :
          \A j \in 1..Len(FeatureNames) :
             track_features.rows[r][6 + j] =
                FeatureValue(track_features.rows[r][3].val, FeatureNames[j])

AllEqual == \A i \in 1..Len(data) : data[i] = data[1]

\* The sum of len(data) copies of the integer c is computed without rounding.
ExactInteger(c, count) ==
    c.e >= 0 /\ BigBitLen(c.m) + c.e + BitsOf(count) <= Precision

\* C9 as stated: for data whose elements all equal c, bootstrap_ci returns
\* (c, c) whatever the resampling draws.
C9_ReturnsTheConstant ==
    (op = "bootstrap_ci" /\ pc = "done" /\ AllEqual)
    => interval = <<data[1], data[1]>>

\* C9 as amended: for data whose elements all equal c, whatever the
\* resampling draws, bootstrap_ci returns (m, m) with m the floating-point
\* mean of the data; m is c when the data are integers whose sum is exact.
C9_DegenerateInterval ==
    (op = "bootstrap_ci" /\ pc = "done" /\ AllEqual)
    => /\ interval[1] = interval[2]
       /\ interval[1] = mean(data)
       /\ \A k \in 1..Len(boot_means) : boot_means[k] = interval[1]
       /\ ExactInteger(data[1], Len(data)) => interval = <<data[1], data[1]>>

C9_Witness ==
    /\ op = "bootstrap_ci"
    /\ pc = "done"
    /\ data = <<Tenth, Tenth, Tenth>>
    /\ n_bootstrap = 2
    /\ ci = 95
    /\ interval[1] = interval[2]
    /\ interval[1] # Tenth

====
